---- MODULE Spec2Model ----
(***************************************************************************)
(* Model of process_map.py: a script that rasterizes an image into a       *)
(* 200x200 collision grid, writes it as a generated module, and then       *)
(* rewrites every "y: <digits>" literal of a coordinate file as            *)
(* "y: <1000 - digits>".                                                   *)
(*                                                                         *)
(* Text is a sequence of one-character strings.                            *)
(***************************************************************************)
EXTENDS Integers, Sequences, FiniteSets

VARIABLES
    \* ---- files and console, shared by every invocation of the script
    image_file,     \* /tmp/file_attachments/image.png, as decoded to RGBA
    artifact_file,  \* src/lib/engine/maps/dust2_collisions.ts
    coord_file,     \* src/lib/engine/maps/dust2.ts
    events,         \* the I/O operations each invocation has done, in order
    writers,        \* the invocations that wrote the coordinate file, in order
    overlap,        \* whether one invocation ever ran while another was under way
    \* ---- one invocation's interpreter state, indexed by invocation
    pc,             \* the statement the invocation is about to run
    img,            \* img (line 6)
    img_small,      \* img_small / pixels (line 10-11)
    grid,           \* grid (line 13-28)
    flat_grid,      \* flat_grid (line 31)
    content,        \* content (line 47)
    new_content,    \* new_content (line 55)
    stdout,         \* the lines printed
    \* ---- the coordinate substitution applied to a text on its own
    input,          \* the text the substitution was first applied to, by its parts
    text,           \* the text after `passes` applications
    passes,
    \* ---- the classification of one pixel on its own
    pixel,          \* r, g, b, a = pixels[x, y]
    row             \* the row, empty before the loop body and with one cell after it

fileVars == <<image_file, artifact_file, coord_file, events, writers>>
procVars == <<pc, overlap, img, img_small, grid, flat_grid, content, new_content, stdout>>
flipVars == <<input, text, passes>>
cellVars == <<pixel, row>>
vars == <<image_file, artifact_file, coord_file, events, writers, overlap, pc, img, img_small, grid,
          flat_grid, content, new_content, stdout, input, text, passes, pixel, row>>

None == "none"

(***************************************************************************)
(* Bounds of the model.                                                    *)
(***************************************************************************)
\* Longest digit sequence of a generated field.
MaxDigits == 4
\* Number of times the substitution is applied to a text.
MaxPasses == 2
\* Largest width and height of the small generated images.
MaxDim == 2
\* Width and height of the one large generated image (larger than the grid).
BigWidth == 401
BigHeight == 300

(***************************************************************************)
(* Program constants.                                                      *)
(***************************************************************************)
GRID_SIZE == 200

(***************************************************************************)
(* Characters: Python's \d and \s classes, int() and str().                *)
(***************************************************************************)
DigitChars == <<"0", "1", "2", "3", "4", "5", "6", "7", "8", "9">>

IsDigit(c) == \E i \in 1..10 : DigitChars[i] = c

IsSpace(c) == c \in {" ", "\t", "\n", "\r", "\f"}

DigitVal(c) == (CHOOSE i \in 1..10 : DigitChars[i] = c) - 1

RECURSIVE ParseInt(_)
ParseInt(ds) ==
    IF ds = <<>> THEN 0
    ELSE ParseInt(SubSeq(ds, 1, Len(ds) - 1)) * 10 + DigitVal(ds[Len(ds)])

RECURSIVE NatToStr(_)
NatToStr(n) ==
    IF n < 10 THEN <<DigitChars[n + 1]>>
    ELSE NatToStr(n \div 10) \o <<DigitChars[(n % 10) + 1]>>

IntToStr(n) == IF n < 0 THEN <<"-">> \o NatToStr(-n) ELSE NatToStr(n)

(***************************************************************************)
(* The substitution re.sub(r'y:\s*(\d+)', flip_y, content).                *)
(***************************************************************************)
\* The first position at or after i of s that does not hold a character of
\* the class (Len(s) + 1 when the run reaches the end): a greedy \s* or \d*.
RECURSIVE SkipSpaces(_, _)
SkipSpaces(s, i) ==
    IF i <= Len(s) /\ IsSpace(s[i]) THEN SkipSpaces(s, i + 1) ELSE i

RECURSIVE SkipDigits(_, _)
SkipDigits(s, i) ==
    IF i <= Len(s) /\ IsDigit(s[i]) THEN SkipDigits(s, i + 1) ELSE i

\* A variant of the pattern that takes one digit only: y:\s*(\d).
MatchEndMutShort(s, i) ==
    IF i + 1 <= Len(s) /\ s[i] = "y" /\ s[i + 1] = ":"
    THEN LET d == SkipSpaces(s, i + 2)
         IN  IF d <= Len(s) /\ IsDigit(s[d]) THEN d + 1 ELSE 0
    ELSE 0

\* The pattern matched at position i of s: 0 when it does not match, else the
\* position just after the match. The classes \s and \d are disjoint, so the
\* greedy runs are the only way to match.
MatchEnd(s, i) ==
    IF i + 1 <= Len(s) /\ s[i] = "y" /\ s[i + 1] = ":"
    THEN LET d == SkipSpaces(s, i + 2)
             e == SkipDigits(s, d)
         IN  IF e > d THEN e ELSE 0
    ELSE 0

\* match.group(1) of the match at i.
Group1(s, i) == SubSeq(s, SkipSpaces(s, i + 2), MatchEnd(s, i) - 1)

\* A variant of flip_y with the operands of the subtraction exchanged.
flip_yMutOperands(g1) ==
    LET y_val == ParseInt(g1)
        new_y == y_val - 1000
    IN  <<"y", ":", " ">> \o IntToStr(new_y)

\* flip_y, given match.group(1).
flip_y(g1) ==
    LET y_val == ParseInt(g1)
        new_y == 1000 - y_val
    IN  <<"y", ":", " ">> \o IntToStr(new_y)

\* re.sub scans left to right; after a match it goes on just after it.
RECURSIVE SubFrom(_, _)
SubFrom(s, i) ==
    IF i > Len(s) THEN <<>>
    ELSE LET e == MatchEnd(s, i)
         IN  IF e = 0 THEN <<s[i]>> \o SubFrom(s, i + 1)
             ELSE flip_y(Group1(s, i)) \o SubFrom(s, e)

\* A variant of the substitution whose pattern takes a sign: y:\s*(-?\d+).
RECURSIVE SubFromMutSigned(_, _)
SubFromMutSigned(s, i) ==
    IF i > Len(s) THEN <<>>
    ELSE LET d == SkipSpaces(s, i + 2)
             neg == d <= Len(s) /\ s[d] = "-"
             first == IF neg THEN d + 1 ELSE d
             e == SkipDigits(s, first)
             y_val == IF neg THEN 0 - ParseInt(SubSeq(s, first, e - 1))
                      ELSE ParseInt(SubSeq(s, first, e - 1))
         IN  IF i + 1 <= Len(s) /\ s[i] = "y" /\ s[i + 1] = ":" /\ e > first
             THEN <<"y", ":", " ">> \o IntToStr(1000 - y_val) \o SubFromMutSigned(s, e)
             ELSE <<s[i]>> \o SubFromMutSigned(s, i + 1)

SubMutSigned(s) == SubFromMutSigned(s, 1)

Sub(s) == SubFrom(s, 1)

(***************************************************************************)
(* Texts the substitution is applied to: one field (label, separator,      *)
(* sign, digits, fraction) with every digit sequence up to MaxDigits, and  *)
(* a few texts of several fields.                                          *)
(***************************************************************************)
RECURSIVE SeqsUpTo(_, _)
SeqsUpTo(S, n) ==
    IF n = 0 THEN {<<>>}
    ELSE LET shorter == SeqsUpTo(S, n - 1)
         IN  shorter \cup {s \o <<c>> : s \in shorter, c \in S}

Labels == {<<"y">>, <<"x">>, <<"x", "y">>}
Seps == {<<":">>, <<":", " ">>, <<":", " ", " ">>, <<":", "\t">>}
Signs == {<<>>, <<"-">>, <<"+">>}
Fracs == {<<>>, <<".", "5">>}
DigitStrings == SeqsUpTo({"0", "1", "5"}, MaxDigits) \ {<<>>}

Field(l, s, g, d, f) == [label |-> l, sep |-> s, sign |-> g, digits |-> d, frac |-> f]

Fields == [label : Labels, sep : Seps, sign : Signs, digits : DigitStrings, frac : Fracs]

Render(f) == f.label \o f.sep \o f.sign \o f.digits \o f.frac

RECURSIVE Join(_, _)
Join(fs, glue) ==
    IF fs = <<>> THEN <<>>
    ELSE IF Len(fs) = 1 THEN fs[1]
    ELSE fs[1] \o glue \o Join(Tail(fs), glue)

Comma == <<",", " ">>

RenderInput(in) ==
    in.pre \o Join([k \in 1..Len(in.fields) |-> Render(in.fields[k])], Comma) \o in.post

Text(pre, fs, post) == [pre |-> pre, fields |-> fs, post |-> post]

\* "pos: {x: 10, y: 250}"
Scenario ==
    Text(<<"p", "o", "s", ":", " ", "{">>,
         <<Field(<<"x">>, <<":", " ">>, <<>>, <<"1", "0">>, <<>>),
           Field(<<"y">>, <<":", " ">>, <<>>, <<"2", "5", "0">>, <<>>)>>,
         <<"}">>)

Samples ==
    { Scenario,
      Text(<<>>, <<>>, <<>>),
      Text(<<"n", "o", " ", "f", "i", "e", "l", "d", "s">>, <<>>, <<>>),
      \* "y: 0, y: 1000"
      Text(<<>>, <<Field(<<"y">>, <<":", " ">>, <<>>, <<"0">>, <<>>),
                   Field(<<"y">>, <<":", " ">>, <<>>, <<"1", "0", "0", "0">>, <<>>)>>, <<>>),
      \* "y: 750, y: 1500"
      Text(<<>>, <<Field(<<"y">>, <<":", " ">>, <<>>, <<"7", "5", "0">>, <<>>),
                   Field(<<"y">>, <<":", " ">>, <<>>, <<"1", "5", "0", "0">>, <<>>)>>, <<>>),
      \* "y:5, y:  250"
      Text(<<>>, <<Field(<<"y">>, <<":">>, <<>>, <<"5">>, <<>>),
                   Field(<<"y">>, <<":", " ", " ">>, <<>>, <<"2", "5", "0">>, <<>>)>>, <<>>),
      \* "{x: 500, y: -3, y: 2.5}"
      Text(<<"{">>, <<Field(<<"x">>, <<":", " ">>, <<>>, <<"5", "0", "0">>, <<>>),
                      Field(<<"y">>, <<":", " ">>, <<"-">>, <<"3">>, <<>>),
                      Field(<<"y">>, <<":", " ">>, <<>>, <<"2">>, <<".", "5">>)>>, <<"}">>) }

Inputs == {Text(<<>>, <<f>>, <<>>) : f \in Fields} \cup Samples

(***************************************************************************)
(* The substitution on its own.                                            *)
(***************************************************************************)
IdleFiles ==
    /\ image_file = None /\ artifact_file = None /\ coord_file = None
    /\ events = <<>> /\ writers = <<>>

IdleProcs ==
    /\ pc = <<>> /\ overlap = FALSE /\ img = <<>> /\ img_small = <<>> /\ grid = <<>> /\ flat_grid = <<>>
    /\ content = <<>> /\ new_content = <<>> /\ stdout = <<>>

IdleFlip == input = None /\ text = None /\ passes = 0

IdleCell == pixel = None /\ row = <<>>

InitFlip ==
    /\ input \in Inputs
    /\ text = RenderInput(input)
    /\ passes = 0
    /\ IdleFiles /\ IdleProcs /\ IdleCell

ApplyFlip ==
    /\ passes < MaxPasses
    /\ text' = Sub(text)
    /\ passes' = passes + 1
    /\ UNCHANGED <<input, fileVars, procVars, cellVars>>

NextFlip == ApplyFlip

SpecFlip == InitFlip /\ [][NextFlip]_vars

(***************************************************************************)
(* The pattern, stated on the text: where its matches lie.                 *)
(***************************************************************************)
\* A match starts at i: "y", ":", then only white space up to a first digit.
StartsField(s, i) ==
    /\ i + 2 <= Len(s) /\ s[i] = "y" /\ s[i + 1] = ":"
    /\ \E d \in (i + 2)..Len(s) :
          IsDigit(s[d]) /\ \A k \in (i + 2)..(d - 1) : IsSpace(s[k])

FieldStarts(s) == {i \in 1..Len(s) : StartsField(s, i)}

\* The first digit of the field starting at i, and its last digit.
FirstDigit(s, i) == CHOOSE d \in (i + 2)..Len(s) :
                        IsDigit(s[d]) /\ \A k \in (i + 2)..(d - 1) : IsSpace(s[k])

LastDigit(s, i) == CHOOSE e \in FirstDigit(s, i)..Len(s) :
                       /\ \A k \in FirstDigit(s, i)..e : IsDigit(s[k])
                       /\ (e = Len(s) \/ ~IsDigit(s[e + 1]))

FieldValue(s, i) == ParseInt(SubSeq(s, FirstDigit(s, i), LastDigit(s, i)))

FieldText(s, i) == SubSeq(s, i, LastDigit(s, i))

InField(s, k) == \E i \in FieldStarts(s) : i < k /\ k <= LastDigit(s, i)

\* A field as the script itself writes one: "y: " and the plain decimal.
Canonical(s, i) == FieldText(s, i) = <<"y", ":", " ">> \o IntToStr(FieldValue(s, i))

RECURSIVE Concat(_)
Concat(pieces) == IF pieces = <<>> THEN <<>> ELSE pieces[1] \o Concat(Tail(pieces))

\* Every field replaced by "y: " and the decimal of 1000 - value, the rest kept.
Flipped(s) ==
    Concat([k \in 1..Len(s) |->
               IF k \in FieldStarts(s)
               THEN <<"y", ":", " ">> \o IntToStr(1000 - FieldValue(s, k))
               ELSE IF InField(s, k) THEN <<>> ELSE <<s[k]>>])

Source == RenderInput(input)

OneField(sep, digits) == Text(<<>>, <<Field(<<"y">>, sep, <<>>, digits, <<>>)>>, <<>>)

(***************************************************************************)
(* C4: one application replaces each match by "y: " and the unpadded       *)
(* decimal of 1000 - y and changes nothing outside the matches;            *)
(* "pos: {x: 10, y: 250}" becomes "pos: {x: 10, y: 750}", 500 maps to      *)
(* itself, 0 to 1000 and 1000 to 0.                                        *)
(***************************************************************************)
C4_OneFlip ==
    passes = 1 =>
        /\ text = Flipped(Source)
        /\ input = Scenario =>
              text = <<"p", "o", "s", ":", " ", "{", "x", ":", " ", "1", "0", ",", " ",
                       "y", ":", " ", "7", "5", "0", "}">>
        /\ input = OneField(<<":", " ">>, <<"5", "0", "0">>) => text = Source
        /\ input = OneField(<<":", " ">>, <<"0">>) => text = <<"y", ":", " ", "1", "0", "0", "0">>
        /\ input = OneField(<<":", " ">>, <<"1", "0", "0", "0">>) => text = <<"y", ":", " ", "0">>

C4_Witness ==
    /\ passes = 1 /\ input = Scenario
    /\ text = <<"p", "o", "s", ":", " ", "{", "x", ":", " ", "1", "0", ",", " ",
                "y", ":", " ", "7", "5", "0", "}">>

(***************************************************************************)
(* C1 as stated: for a text whose matching fields all hold values in       *)
(* [0, 1000], two applications give back the text exactly.                 *)
(***************************************************************************)
C1_InvolutionInRange ==
    (passes = 2 /\ \A i \in FieldStarts(Source) : FieldValue(Source, i) <= 1000)
        => text = Source

(***************************************************************************)
(* C1 amended: for a text whose matching fields are all written the way    *)
(* the script writes them ("y: " and the plain decimal, one space, no      *)
(* leading zeros) with values in [0, 1000], two applications give back the *)
(* text exactly.                                                           *)
(***************************************************************************)
C1_InvolutionCanonical ==
    (passes = 2 /\ \A i \in FieldStarts(Source) :
                       Canonical(Source, i) /\ FieldValue(Source, i) <= 1000)
        => text = Source

C1_Witness ==
    /\ passes = 2 /\ input = Scenario /\ text = Source
    /\ FieldStarts(Source) # {}

(***************************************************************************)
(* C7 as stated: for every text, whatever the values of its matching       *)
(* fields, two applications give back the text exactly.                    *)
(***************************************************************************)
C7_InvolutionAllValues == passes = 2 => text = Source

(***************************************************************************)
(* C7 amended: a text with a matching field whose value is greater than    *)
(* 1000 is not given back by two applications: the first writes a negative *)
(* number there, which the pattern does not match, so the second leaves    *)
(* the field as the first wrote it.                                        *)
(***************************************************************************)
C7_AboveRangeNotRestored ==
    (passes = 2 /\ \E i \in FieldStarts(Source) : FieldValue(Source, i) > 1000)
        => /\ text # Source
           /\ \E k \in 1..(Len(text) - 3) : SubSeq(text, k, k + 3) = <<"y", ":", " ", "-">>

C7_Witness ==
    /\ passes = 2
    /\ input = OneField(<<":", " ">>, <<"1", "5", "0", "0">>)
    /\ text = <<"y", ":", " ", "-", "5", "0", "0">>

(***************************************************************************)
(* C2 as stated: one application leaves every numeric field that is not a  *)
(* match as it was: a number after a different label, a signed number, a   *)
(* decimal number.                                                         *)
(***************************************************************************)
NonMatching(f) == f.label # <<"y">> \/ f.sign # <<>> \/ f.frac # <<>>

C2_NonMatchingUntouched ==
    (passes = 1 /\ \A k \in 1..Len(input.fields) : NonMatching(input.fields[k]))
        => text = Source

(***************************************************************************)
(* Images: w x h RGBA pixels, all of colour bg but the top right one, of   *)
(* colour fg.                                                              *)
(***************************************************************************)
Black == <<0, 0, 0, 255>>
White == <<255, 255, 255, 255>>
Clear == <<255, 255, 255, 0>>
Palette == {Black, White, Clear}

ImageSizes == ((1..MaxDim) \X (1..MaxDim)) \cup {<<BigWidth, BigHeight>>}

Images == {im \in [w : {wh[1] : wh \in ImageSizes}, h : {wh[2] : wh \in ImageSizes},
                     bg : Palette, fg : Palette] :
              <<im.w, im.h>> \in ImageSizes /\ im.fg # im.bg}

SourcePixel(im, i, j) == IF i = im.w - 1 /\ j = 0 THEN im.fg ELSE im.bg
(***************************************************************************)
(* The rasterizer's computations.                                          *)
(***************************************************************************)
\* img.resize((GRID_SIZE, GRID_SIZE), NEAREST): the resized image is kept as
\* its size and the image it samples; Pixels gives pixels[x, y], the source
\* pixel under the centre of cell (x, y): column floor((x + 0.5) * w / size).
Resized(im, size) == [size |-> size, of |-> im]

Pixels(small, x, y) ==
    SourcePixel(small.of, ((2 * x + 1) * small.of.w) \div (2 * small.size),
                          ((2 * y + 1) * small.of.h) \div (2 * small.size))

is_transparent(px) == px[4] < 50

\* A variant of is_black with <= 30.
is_blackMutInclusive(px) == px[1] <= 30 /\ px[2] <= 30 /\ px[3] <= 30

is_black(px) == px[1] < 30 /\ px[2] < 30 /\ px[3] < 30

\* The value the loop body appends for one pixel.
Classify(px) == IF is_transparent(px) \/ is_black(px) THEN 1 ELSE 0

\* Variants of the loops: x and y exchanged in pixels[x, y]; one row short.
BuildGridMutColumns(pixels) ==
    [y \in 1..GRID_SIZE |-> [x \in 1..GRID_SIZE |-> Classify(Pixels(pixels, y - 1, x - 1))]]

BuildGridMutShort(pixels) ==
    [y \in 1..(GRID_SIZE - 1) |-> [x \in 1..GRID_SIZE |-> Classify(Pixels(pixels, x - 1, y - 1))]]

\* The nested loops: grid[y][x] from pixels[x, y] (sequences count from 1).
BuildGrid(pixels) ==
    [y \in 1..GRID_SIZE |-> [x \in 1..GRID_SIZE |-> Classify(Pixels(pixels, x - 1, y - 1))]]

\* [val for sublist in grid for val in sublist]
\* (the rows are joined in order, by halves to keep the recursion shallow).
RECURSIVE Flatten(_)
Flatten(rows) ==
    IF rows = <<>> THEN <<>>
    ELSE IF Len(rows) = 1 THEN rows[1]
    ELSE LET half == Len(rows) \div 2
         IN  Flatten(SubSeq(rows, 1, half)) \o Flatten(SubSeq(rows, half + 1, Len(rows)))

\* A text of the artifact is a string; Glue makes one of a sequence of
\* characters, JoinText is sep.join(items[a..b]) (by halves, to keep the
\* recursion shallow).
RECURSIVE Glue(_)
Glue(chars) == IF chars = <<>> THEN "" ELSE chars[1] \o Glue(Tail(chars))

RECURSIVE JoinText(_, _, _, _)
JoinText(items, a, b, sep) ==
    IF a > b THEN ""
    ELSE IF a = b THEN items[a]
    ELSE LET m == (a + b) \div 2
         IN  JoinText(items, a, m, sep) \o sep \o JoinText(items, m + 1, b, sep)

\* ','.join(map(str, flat_grid))
JoinedCells(flat) == JoinText([k \in 1..Len(flat) |-> Glue(IntToStr(flat[k]))], 1, Len(flat), ",")

\* What lines 34-41 write, line by line.
ArtifactText(flat) ==
    << "// Auto-generated collision grid (200x200)\n",
       "export const MAP_WIDTH = 1000;\n",
       "export const MAP_HEIGHT = 1000;\n",
       "export const GRID_SIZE = " \o Glue(IntToStr(GRID_SIZE)) \o ";\n",
       "// 0 = Walkable, 1 = Wall\n",
       "export const COLLISION_GRID = [" \o JoinedCells(flat) \o "];\n" >>

GeneratedLine(flat) == <<"Generated dust2_collisions.ts with", Len(flat), "cells.">>

UpdatedLine == <<"Updated dust2.ts with flipped Y coordinates.">>

\* A file opened with 'w' is cut to nothing at once; what is written goes out
\* from the start of the file when it is closed, over what the file then holds.
\* A variant that writes at the end of the file, as a file opened with 'a'.
WriteOverMutAppend(new, old) == old \o new

WriteOver(new, old) == new \o SubSeq(old, Len(new) + 1, Len(old))

(***************************************************************************)
(* The script, statement by statement, for invocation p.                   *)
(***************************************************************************)
Procs == DOMAIN pc

Started(q) == events[q] # <<>>

Ended(q) == pc[q] \in {"done", "raised_at_6", "raised_at_33", "raised_at_46", "raised_at_57"}

\* Every statement moves the invocation on; overlap records whether a
\* statement ever ran while another invocation was under way.
Goto(p, label) ==
    /\ pc' = [pc EXCEPT ![p] = label]
    /\ overlap' = (overlap \/ \E q \in Procs \ {p} : Started(q) /\ ~Ended(q))

Did(p, op) == events' = [events EXCEPT ![p] = Append(@, op)]

\* Line 6: Image.open(...).convert('RGBA').
OpenImage(p) ==
    /\ pc[p] = "open_image"
    /\ img' = [img EXCEPT ![p] = image_file]
    /\ Did(p, "read_image")
    /\ Goto(p, "resize")
    /\ UNCHANGED <<image_file, artifact_file, coord_file, writers, img_small, grid,
                   flat_grid, content, new_content, stdout, flipVars, cellVars>>

\* A variant in which the artifact is opened for writing before line 6 raises.
OpenImageFailsMutAfterOpen(p) ==
    /\ pc[p] = "open_image"
    /\ artifact_file' = <<>>
    /\ Goto(p, "raised_at_6")
    /\ UNCHANGED <<image_file, coord_file, events, writers, img, img_small, grid,
                   flat_grid, content, new_content, stdout, flipVars, cellVars>>

\* Line 6 raises: the image is missing or cannot be decoded.
OpenImageFails(p) ==
    /\ pc[p] = "open_image"
    /\ Goto(p, "raised_at_6")
    /\ UNCHANGED <<image_file, artifact_file, coord_file, events, writers, img, img_small,
                   grid, flat_grid, content, new_content, stdout, flipVars,
                   cellVars>>

\* Lines 10-11.
Resize(p) ==
    /\ pc[p] = "resize"
    /\ img_small' = [img_small EXCEPT ![p] = Resized(img[p], GRID_SIZE)]
    /\ Goto(p, "classify")
    /\ UNCHANGED <<image_file, artifact_file, coord_file, events, writers, img, grid,
                   flat_grid, content, new_content, stdout, flipVars, cellVars>>

\* Lines 13-28.
ClassifyAll(p) ==
    /\ pc[p] = "classify"
    /\ grid' = [grid EXCEPT ![p] = BuildGrid(img_small[p])]
    /\ Goto(p, "flatten")
    /\ UNCHANGED <<image_file, artifact_file, coord_file, events, writers, img, img_small,
                   flat_grid, content, new_content, stdout, flipVars, cellVars>>

\* Line 31.
FlattenGrid(p) ==
    /\ pc[p] = "flatten"
    /\ flat_grid' = [flat_grid EXCEPT ![p] = Flatten(grid[p])]
    /\ Goto(p, "open_artifact")
    /\ UNCHANGED <<image_file, artifact_file, coord_file, events, writers, img, img_small,
                   grid, content, new_content, stdout, flipVars, cellVars>>

\* Line 33: open(..., 'w').
OpenArtifact(p) ==
    /\ pc[p] = "open_artifact"
    /\ artifact_file' = <<>>
    /\ Did(p, "open_artifact")
    /\ Goto(p, "write_artifact")
    /\ UNCHANGED <<image_file, coord_file, writers, img, img_small, grid, flat_grid,
                   content, new_content, stdout, flipVars, cellVars>>

\* Line 33 raises: the directory is missing or not writable.
OpenArtifactFails(p) ==
    /\ pc[p] = "open_artifact"
    /\ Goto(p, "raised_at_33")
    /\ UNCHANGED <<image_file, artifact_file, coord_file, events, writers, img, img_small,
                   grid, flat_grid, content, new_content, stdout, flipVars,
                   cellVars>>

\* Lines 34-41 and the end of the with block, which closes the file.
WriteArtifact(p) ==
    /\ pc[p] = "write_artifact"
    /\ artifact_file' = ArtifactText(flat_grid[p])
    /\ Did(p, "close_artifact")
    /\ Goto(p, "print_generated")
    /\ UNCHANGED <<image_file, coord_file, writers, img, img_small, grid, flat_grid,
                   content, new_content, stdout, flipVars, cellVars>>

\* Line 43.
PrintGenerated(p) ==
    /\ pc[p] = "print_generated"
    /\ stdout' = [stdout EXCEPT ![p] = Append(@, GeneratedLine(flat_grid[p]))]
    /\ Did(p, "print_generated")
    /\ Goto(p, "open_coord")
    /\ UNCHANGED <<image_file, artifact_file, coord_file, writers, img, img_small, grid,
                   flat_grid, content, new_content, flipVars, cellVars>>

\* A variant in which line 46 may also run right after line 6.
OpenCoordMutEarly(p) ==
    /\ pc[p] \in {"resize", "open_coord"}
    /\ Did(p, "open_coord")
    /\ Goto(p, "read_coord")
    /\ UNCHANGED <<image_file, artifact_file, coord_file, writers, img, img_small, grid,
                   flat_grid, content, new_content, stdout, flipVars, cellVars>>

\* Line 46: open(..., 'r').
OpenCoord(p) ==
    /\ pc[p] = "open_coord"
    /\ Did(p, "open_coord")
    /\ Goto(p, "read_coord")
    /\ UNCHANGED <<image_file, artifact_file, coord_file, writers, img, img_small, grid,
                   flat_grid, content, new_content, stdout, flipVars, cellVars>>

\* Line 46 raises: the coordinate file is missing or not readable.
OpenCoordFails(p) ==
    /\ pc[p] = "open_coord"
    /\ Goto(p, "raised_at_46")
    /\ UNCHANGED <<image_file, artifact_file, coord_file, events, writers, img, img_small,
                   grid, flat_grid, content, new_content, stdout, flipVars,
                   cellVars>>

\* Line 47 and the end of the with block.
ReadCoord(p) ==
    /\ pc[p] = "read_coord"
    /\ content' = [content EXCEPT ![p] = coord_file]
    /\ Did(p, "read_coord")
    /\ Goto(p, "sub")
    /\ UNCHANGED <<image_file, artifact_file, coord_file, writers, img, img_small, grid,
                   flat_grid, new_content, stdout, flipVars, cellVars>>

\* Line 55.
Substitute(p) ==
    /\ pc[p] = "sub"
    /\ new_content' = [new_content EXCEPT ![p] = Sub(content[p])]
    /\ Goto(p, "open_coord_w")
    /\ UNCHANGED <<image_file, artifact_file, coord_file, events, writers, img, img_small,
                   grid, flat_grid, content, stdout, flipVars, cellVars>>

\* Line 57: open(..., 'w').
OpenCoordForWrite(p) ==
    /\ pc[p] = "open_coord_w"
    /\ coord_file' = <<>>
    /\ Did(p, "open_coord_w")
    /\ Goto(p, "write_coord")
    /\ UNCHANGED <<image_file, artifact_file, writers, img, img_small, grid, flat_grid,
                   content, new_content, stdout, flipVars, cellVars>>

\* Line 57 raises: the coordinate file is not writable.
OpenCoordForWriteFails(p) ==
    /\ pc[p] = "open_coord_w"
    /\ Goto(p, "raised_at_57")
    /\ UNCHANGED <<image_file, artifact_file, coord_file, events, writers, img, img_small,
                   grid, flat_grid, content, new_content, stdout, flipVars,
                   cellVars>>

\* Line 58 and the end of the with block, which closes the file.
WriteCoord(p) ==
    /\ pc[p] = "write_coord"
    /\ coord_file' = WriteOver(new_content[p], coord_file)
    /\ writers' = Append(writers, p)
    /\ Did(p, "close_coord")
    /\ Goto(p, "print_updated")
    /\ UNCHANGED <<image_file, artifact_file, img, img_small, grid, flat_grid, content,
                   new_content, stdout, flipVars, cellVars>>

\* Line 60.
PrintUpdated(p) ==
    /\ pc[p] = "print_updated"
    /\ stdout' = [stdout EXCEPT ![p] = Append(@, UpdatedLine)]
    /\ Did(p, "print_updated")
    /\ Goto(p, "done")
    /\ UNCHANGED <<image_file, artifact_file, coord_file, writers, img, img_small, grid,
                   flat_grid, content, new_content, flipVars, cellVars>>

Next ==
    \/ \E p \in Procs : OpenImage(p)
    \/ \E p \in Procs : OpenImageFails(p)
    \/ \E p \in Procs : Resize(p)
    \/ \E p \in Procs : ClassifyAll(p)
    \/ \E p \in Procs : FlattenGrid(p)
    \/ \E p \in Procs : OpenArtifact(p)
    \/ \E p \in Procs : OpenArtifactFails(p)
    \/ \E p \in Procs : WriteArtifact(p)
    \/ \E p \in Procs : PrintGenerated(p)
    \/ \E p \in Procs : OpenCoord(p)
    \/ \E p \in Procs : OpenCoordFails(p)
    \/ \E p \in Procs : ReadCoord(p)
    \/ \E p \in Procs : Substitute(p)
    \/ \E p \in Procs : OpenCoordForWrite(p)
    \/ \E p \in Procs : OpenCoordForWriteFails(p)
    \/ \E p \in Procs : WriteCoord(p)
    \/ \E p \in Procs : PrintUpdated(p)

\* What was in the artifact file before the run.
StaleArtifact == <<"// an earlier version\n">>

InitRun(invocations, images, texts) ==
    /\ image_file \in images
    /\ artifact_file = StaleArtifact
    /\ input \in texts
    /\ coord_file = RenderInput(input)
    /\ events = [p \in invocations |-> <<>>]
    /\ writers = <<>>
    /\ overlap = FALSE
    /\ pc = [p \in invocations |-> "open_image"]
    /\ img = [p \in invocations |-> None]
    /\ img_small = [p \in invocations |-> None]
    /\ grid = [p \in invocations |-> <<>>]
    /\ flat_grid = [p \in invocations |-> <<>>]
    /\ content = [p \in invocations |-> <<>>]
    /\ new_content = [p \in invocations |-> <<>>]
    /\ stdout = [p \in invocations |-> <<>>]
    /\ text = None /\ passes = 0
    /\ IdleCell

\* One run of the script, over the images.
Init == InitRun({1}, Images, {Scenario})

Spec == Init /\ [][Next]_vars

\* Two runs of the script at once on the same coordinate file, from line 46
\* on: lines 46-60 read nothing of what lines 6-43 leave behind.
TwoTexts ==
    { \* "y:5"
      Text(<<>>, <<Field(<<"y">>, <<":">>, <<>>, <<"5">>, <<>>)>>, <<>>),
      \* "y: 500"
      Text(<<>>, <<Field(<<"y">>, <<":", " ">>, <<>>, <<"5", "0", "0">>, <<>>)>>, <<>>),
      \* "y: 1500"
      Text(<<>>, <<Field(<<"y">>, <<":", " ">>, <<>>, <<"1", "5", "0", "0">>, <<>>)>>, <<>>) }

InitTwo ==
    /\ input \in Samples \cup TwoTexts
    /\ coord_file = RenderInput(input)
    /\ image_file = None
    /\ artifact_file = StaleArtifact
    /\ events = [p \in {1, 2} |-> <<>>]
    /\ writers = <<>>
    /\ overlap = FALSE
    /\ pc = [p \in {1, 2} |-> "open_coord"]
    /\ img = [p \in {1, 2} |-> None]
    /\ img_small = [p \in {1, 2} |-> None]
    /\ grid = [p \in {1, 2} |-> <<>>]
    /\ flat_grid = [p \in {1, 2} |-> <<>>]
    /\ content = [p \in {1, 2} |-> <<>>]
    /\ new_content = [p \in {1, 2} |-> <<>>]
    /\ stdout = [p \in {1, 2} |-> <<>>]
    /\ text = None /\ passes = 0
    /\ IdleCell

NextTwo ==
    \/ \E p \in Procs : OpenCoord(p)
    \/ \E p \in Procs : OpenCoordFails(p)
    \/ \E p \in Procs : ReadCoord(p)
    \/ \E p \in Procs : Substitute(p)
    \/ \E p \in Procs : OpenCoordForWrite(p)
    \/ \E p \in Procs : OpenCoordForWriteFails(p)
    \/ \E p \in Procs : WriteCoord(p)
    \/ \E p \in Procs : PrintUpdated(p)

SpecTwo == InitTwo /\ [][NextTwo]_vars

(***************************************************************************)
(* The classification of one pixel on its own.                             *)
(***************************************************************************)
Channels == {0, 29, 30, 31, 49, 50, 51, 255}

InitCell ==
    /\ pixel \in Channels \X Channels \X Channels \X Channels
    /\ row = <<>>
    /\ IdleFiles /\ IdleProcs /\ IdleFlip

ClassifyPixel ==
    /\ row = <<>>
    /\ row' = Append(row, Classify(pixel))
    /\ UNCHANGED <<pixel, fileVars, procVars, flipVars>>

NextCell == ClassifyPixel

SpecCell == InitCell /\ [][NextCell]_vars
(***************************************************************************)
(* C3: a sampled pixel (r, g, b, a) gives the cell 1 exactly when a < 50   *)
(* or r, g and b are all below 30, and 0 otherwise; a = 50 is not          *)
(* transparent and r = g = b = 30 is not black, while a = 49 and           *)
(* r = g = b = 29 each give a wall.                                        *)
(***************************************************************************)
C3_Classification ==
    row # <<>> =>
        LET r == pixel[1]
            g == pixel[2]
            b == pixel[3]
            a == pixel[4]
        IN  /\ Len(row) = 1
            /\ row[1] \in {0, 1}
            /\ row[1] = 1 <=> (a < 50 \/ (r < 30 /\ g < 30 /\ b < 30))
            /\ (a = 50 /\ r = 30 /\ g = 30 /\ b = 30) => row[1] = 0
            /\ (a = 50 /\ r = 255) => row[1] = 0
            /\ (a = 255 /\ r = 30 /\ g = 30 /\ b = 30) => row[1] = 0
            /\ a = 49 => row[1] = 1
            /\ (r = 29 /\ g = 29 /\ b = 29) => row[1] = 1

C3_Witness == pixel = <<30, 30, 30, 50>> /\ row = <<0>>

(***************************************************************************)
(* C5: whatever the width and height of the image, the grid has exactly    *)
(* 200 rows of 200 cells, the flattened grid exactly 40,000 entries, which *)
(* is the count the status line reports, and every entry is 0 or 1. (The   *)
(* entries are inspected once per run, when the flattened grid is built.)  *)
(***************************************************************************)
C5_GridShape ==
    \A p \in Procs :
        /\ grid[p] # <<>> =>
              /\ Len(grid[p]) = 200
              /\ \A y \in 1..Len(grid[p]) : Len(grid[p][y]) = 200
        /\ flat_grid[p] # <<>> =>
              /\ Len(flat_grid[p]) = 40000
              /\ Len(flat_grid[p]) = GRID_SIZE * GRID_SIZE
        /\ pc[p] = "open_artifact" =>
              /\ flat_grid[p] # <<>>
              /\ \A k \in 1..Len(flat_grid[p]) : flat_grid[p][k] \in {0, 1}
        /\ stdout[p] # <<>> => stdout[p][1][2] = 40000

C5_Witness ==
    /\ pc[1] = "open_coord"
    /\ image_file.w = BigWidth /\ image_file.h = BigHeight
    /\ Len(flat_grid[1]) = 40000
    /\ stdout[1][1][2] = 40000

(***************************************************************************)
(* C6: the written COLLISION_GRID is in row-major order: for every row y   *)
(* and column x in 0..199 the entry at flat index y * 200 + x is the       *)
(* classification of the resampled pixel at column x, row y. (Inspected    *)
(* when the artifact has just been written.)                               *)
(***************************************************************************)
C6_RowMajor ==
    \A p \in Procs :
        pc[p] = "print_generated" =>
            LET small == img_small[p]
                \* the entries at flat indexes y * 200 + 0 .. y * 200 + 199
                Row(y) == JoinText([x \in 0..199 |->
                                       IF Classify(Pixels(small, x, y)) = 1 THEN "1" ELSE "0"],
                                   0, 199, ",")
            IN  artifact_file[6]
                    = "export const COLLISION_GRID = ["
                        \o JoinText([y \in 0..199 |-> Row(y)], 0, 199, ",") \o "];\n"

\* The top right and the bottom left cells differ: rows and columns show.
C6_Witness ==
    /\ pc[1] = "print_generated"
    /\ image_file = [w |-> 2, h |-> 2, bg |-> White, fg |-> Black]
    /\ flat_grid[1][0 * 200 + 199 + 1] = 1
    /\ flat_grid[1][199 * 200 + 0 + 1] = 0
    /\ artifact_file[6] = "export const COLLISION_GRID = [" \o JoinedCells(flat_grid[1]) \o "];\n"

(***************************************************************************)
(* C8: within one run the artifact is written and closed, and the first    *)
(* status line printed, before the coordinate file is first opened for     *)
(* reading, and the coordinate file is read in full before it is opened    *)
(* for writing; the flip never starts while the rasterization is           *)
(* incomplete.                                                             *)
(***************************************************************************)
Precedes(log, a, b) ==
    \A j \in 1..Len(log) : log[j] = b => \E i \in 1..(j - 1) : log[i] = a

FlipStatements ==
    {"read_coord", "sub", "open_coord_w", "write_coord", "print_updated", "done",
     "raised_at_46", "raised_at_57"}

C8_StepsInOrder ==
    \A p \in Procs :
        /\ Precedes(events[p], "read_image", "open_artifact")
        /\ Precedes(events[p], "open_artifact", "close_artifact")
        /\ Precedes(events[p], "close_artifact", "print_generated")
        /\ Precedes(events[p], "close_artifact", "open_coord")
        /\ Precedes(events[p], "print_generated", "open_coord")
        /\ Precedes(events[p], "open_coord", "read_coord")
        /\ Precedes(events[p], "read_coord", "open_coord_w")
        /\ Precedes(events[p], "open_coord_w", "close_coord")
        /\ Precedes(events[p], "close_coord", "print_updated")
        /\ (pc[p] \in FlipStatements \ {"raised_at_46"} \/ content[p] # <<>> \/ new_content[p] # <<>>)
              => /\ \E i \in 1..Len(events[p]) : events[p][i] = "close_artifact"
                 /\ Len(flat_grid[p]) = GRID_SIZE * GRID_SIZE
                 /\ stdout[p] # <<>> /\ stdout[p][1] = GeneratedLine(flat_grid[p])

C8_Witness ==
    /\ pc[1] = "write_coord"
    /\ events[1] = <<"read_image", "open_artifact", "close_artifact", "print_generated",
                     "open_coord", "read_coord", "open_coord_w">>

(***************************************************************************)
(* C10: a failure stops the run where it happens. When the image cannot be *)
(* opened, neither the artifact nor the coordinate file is opened or       *)
(* changed and nothing is printed. When the coordinate file cannot be      *)
(* read, it is not written and the second status line is not printed, but  *)
(* the artifact has already been overwritten by the run. After either, no  *)
(* statement runs.                                                         *)
(***************************************************************************)
C10_FailureStopsRun ==
    /\ pc[1] = "raised_at_6" =>
          /\ artifact_file = StaleArtifact
          /\ coord_file = Source
          /\ events[1] = <<>>
          /\ stdout[1] = <<>>
          /\ ~ENABLED Next
    /\ pc[1] = "raised_at_46" =>
          /\ coord_file = Source
          /\ \A i \in 1..Len(events[1]) : events[1][i] \notin {"open_coord_w", "close_coord"}
          /\ stdout[1] = <<GeneratedLine(flat_grid[1])>>
          /\ artifact_file # StaleArtifact
          /\ artifact_file = ArtifactText(flat_grid[1])
          /\ ~ENABLED Next

C10_Witness ==
    /\ pc[1] = "raised_at_46"
    /\ artifact_file = ArtifactText(flat_grid[1])
    /\ coord_file = Source

(***************************************************************************)
(* C9 as stated, its first part: when two runs on the same files have both *)
(* finished, the coordinate file holds what the last one to write it       *)
(* wrote.                                                                  *)
(***************************************************************************)
AllDone == \A p \in Procs : pc[p] = "done"

LastWriter == writers[Len(writers)]

C9_LastWriterWins == AllDone => coord_file = new_content[LastWriter]

(***************************************************************************)
(* C9 amended: two runs at once on the same coordinate file are not safe.  *)
(* When both have finished, the file holds what the last one to write it   *)
(* wrote whenever that run wrote a text that is not empty (a run that read *)
(* the file while the other had it cut to nothing writes nothing, and the  *)
(* file then ends empty or holding what the other wrote). When both read   *)
(* before either opened it for writing, the file holds the text flipped    *)
(* once; when the runs follow one another, it is flipped twice.            *)
(***************************************************************************)
C9_TwoRuns ==
    AllDone =>
        /\ new_content[LastWriter] # <<>> => coord_file = new_content[LastWriter]
        /\ coord_file \in {Sub(Source), Sub(Sub(Source)), <<>>}
        /\ (\A p \in Procs : content[p] = Source) => coord_file = Sub(Source)
        /\ ~overlap => coord_file = Sub(Sub(Source))

\* Both read the original text, and the file ends flipped once, not twice.
C9_Witness ==
    /\ AllDone /\ overlap
    /\ \A p \in Procs : content[p] = Source
    /\ coord_file = Sub(Source)
    /\ coord_file # Sub(Sub(Source))

====
